---- MODULE Spec2Model ----
(***************************************************************************)
(* Depth-estimation service: the FastAPI request handlers of api.py, the   *)
(* model loader and calculate_depthmap of predictor.py, the ImgBB client   *)
(* of upload.py and the command line of cli.py.                            *)
(*                                                                         *)
(* Paths and file names are sequences of one-or-more-character atoms, so   *)
(* that splitext, lower, str.replace and np.save's suffix rule are         *)
(* computed rather than assumed.  The file system is the set of paths      *)
(* that exist.  Every call into the OS, the network or torch has its       *)
(* outcome drawn nondeterministically.                                     *)
(***************************************************************************)
EXTENDS Integers, Sequences, FiniteSets, TLC

VARIABLES depth_estimator, files, req, loop, nextToken, last, cli

vars == <<depth_estimator, files, req, loop, nextToken, last, cli>>

(* ---------------------------------------------------------------- bounds *)
NumReqs == 2
MaxTokens == 2

(* ------------------------------------------------------------- constants *)
MAX_FILE_SIZE == 10 * 1024 * 1024

ALLOWED_EXTENSIONS ==
  { <<".", "j", "p", "g">>, <<".", "j", "p", "e", "g">>, <<".", "p", "n", "g">>,
    <<".", "b", "m", "p">>, <<".", "t", "i", "f", "f">> }

TEMP_FOLDER == "uploads"
OUTPUT_FOLDER == "outputs"

NoneStr == "<None>"
NoPath == << >>

(* ------------------------------------------------------- string helpers *)
UpperChars == <<"A","B","C","D","E","F","G","H","I","J","K","L","M",
                "N","O","P","Q","R","S","T","U","V","W","X","Y","Z">>
LowerChars == <<"a","b","c","d","e","f","g","h","i","j","k","l","m",
                "n","o","p","q","r","s","t","u","v","w","x","y","z">>

LowerChar(c) ==
  IF \E i \in 1..26 : UpperChars[i] = c
  THEN LowerChars[CHOOSE i \in 1..26 : UpperChars[i] = c]
  ELSE c

\* str.lower()
lower(s) == [i \in 1..Len(s) |-> LowerChar(s[i])]

\* str.rfind, 1-based; 0 when absent
RFind(p, c) ==
  IF \E i \in 1..Len(p) : p[i] = c
  THEN CHOOSE i \in 1..Len(p) : p[i] = c /\ \A j \in (i+1)..Len(p) : p[j] # c
  ELSE 0

\* os.path.splitext: the extension starts at the last dot of the last path
\* component, unless that component consists of leading dots only up to it
splitext(p) ==
  LET sepIndex == RFind(p, "/")
      dotIndex == RFind(p, ".")
  IN IF dotIndex > sepIndex /\ \E k \in (sepIndex+1)..(dotIndex-1) : p[k] # "."
     THEN <<SubSeq(p, 1, dotIndex-1), SubSeq(p, dotIndex, Len(p))>>
     ELSE <<p, << >> >>

\* os.path.join(folder, name)
PathJoin(folder, name) == <<folder, "/">> \o name

\* str.replace(".png", "_raw.npy") on a path whose ".png" occurrences are atoms
ReplacePng(path) ==
  [i \in 1..Len(path) |-> IF path[i] = ".png" THEN "_raw.npy" ELSE path[i]]

\* np.save appends ".npy" unless the name already ends with it
NpyTarget(path) ==
  IF Len(path) > 0 /\ path[Len(path)] \in {".npy", "_raw.npy"}
  THEN path
  ELSE Append(path, ".npy")

\* the directory part of a path exists ("nodir" is the one that does not)
DirExists(path) == Len(path) > 0 /\ path[1] # "nodir"

\* PIL picks the encoder from the extension and raises on an unknown one
PilKnownExt(path) ==
  Len(path) > 0 /\ path[Len(path)] \in {".png", ".jpg", ".bmp", ".tiff"}

\* Python truthiness of an Optional[str]
Truthy(s) == s # NoneStr /\ s # ""


(* ------------------------------------------------ predictor.py: loader *)
\* What torch does during construction: hub1/hub2 the two torch.hub.load
\* calls, fix the state_dict rewrite, eval1/eval2 the model.eval() calls,
\* cuda the accelerator probe, to the .to(device) call.
LoaderEnvs ==
  [hub1 : BOOLEAN, fix : BOOLEAN, eval1 : BOOLEAN,
   hub2 : BOOLEAN, eval2 : BOOLEAN, cuda : BOOLEAN, to : BOOLEAN]

NoModel == [model |-> "none", device |-> "none"]

_get_device(env) == IF env.cuda THEN "cuda" ELSE "cpu"

\* faulty variant: the rewrite lets its exception out
FixPropagates(env) == [raised |-> ~env.fix, printed_could_not_fix |-> FALSE]

\* returns whether the rewrite raised inside its own try (it never propagates)
_fix_model_state_dict(env) == [raised |-> FALSE, printed_could_not_fix |-> ~env.fix]

_initialize_alternative_model(env) ==
  IF env.hub2 /\ env.eval2
  THEN [raised |-> FALSE, model |-> "MiDaS"]
  ELSE [raised |-> TRUE, model |-> "none"]

_initialize_model(env) ==
  LET primaryRaised == \/ ~env.hub1
                       \/ _fix_model_state_dict(env).raised
                       \/ ~env.eval1
  IN IF primaryRaised
     THEN [alt |-> TRUE] @@ _initialize_alternative_model(env)
     ELSE [alt |-> FALSE, raised |-> FALSE, model |-> "ZoeD_N"]

\* DepthEstimationModel(): _initialize_model().to(_get_device())
DepthEstimationModel(env) ==
  LET m == _initialize_model(env)
  IN IF m.raised
     THEN [raised |-> TRUE, alt |-> m.alt, moved |-> FALSE, self |-> NoModel]
     ELSE IF ~env.to
     THEN [raised |-> TRUE, alt |-> m.alt, moved |-> TRUE, self |-> NoModel]
     ELSE [raised |-> FALSE, alt |-> m.alt, moved |-> TRUE,
           self |-> [model |-> m.model, device |-> _get_device(env)]]

\* hasattr(self.model, "infer_pil"): ZoeDepth has it, MiDaS does not
HasInferPil(self) == self.model = "ZoeD_N"

(* -------------------------------------- predictor.py: calculate_depthmap *)
NoCalc == [cpc |-> "none", via |-> "none", result |-> NoneStr]
SavedMsg == "Depth map saved to"

\* save_colored_depth: every exception is caught and printed
save_colored_depth(fs, output_path, ok) ==
  IF ok /\ PilKnownExt(output_path) /\ DirExists(output_path)
  THEN fs \cup {output_path}
  ELSE fs

\* np.save(raw_output_path, depth_numpy)
np_save(fs, raw_output_path, ok) ==
  IF ok /\ DirExists(raw_output_path)
  THEN [raised |-> FALSE, fs |-> fs \cup {NpyTarget(raw_output_path)}]
  ELSE [raised |-> TRUE, fs |-> fs]

\* faulty variant: a failing np.save is swallowed like a failing image save
CalcReturnAlways(saved) == SavedMsg

\* What calculate_depthmap returns once np.save has run
CalcReturn(saved) == IF saved.raised THEN NoneStr ELSE SavedMsg

\* One step of calculate_depthmap(image_path, output_path); ok is the outcome
\* of the library call the step makes.
calculate_depthmap(c, fs, self, image_path, output_path, ok) ==
  CASE c.cpc = "infer" ->
         IF ok /\ image_path \in fs
         THEN [c |-> [c EXCEPT !.cpc = "save_colored",
                               !.via = IF HasInferPil(self) THEN "infer_pil"
                                       ELSE "_infer_midas"],
               fs |-> fs]
         ELSE [c |-> [c EXCEPT !.cpc = "returned", !.result = NoneStr], fs |-> fs]
    [] c.cpc = "save_colored" ->
         [c |-> [c EXCEPT !.cpc = "np_save"],
          fs |-> save_colored_depth(fs, output_path, ok)]
    [] c.cpc = "np_save" ->
         LET saved == np_save(fs, ReplacePng(output_path), ok)
         IN [c |-> [c EXCEPT !.cpc = "returned", !.result = CalcReturn(saved)],
             fs |-> saved.fs]
    [] OTHER -> [c |-> c, fs |-> fs]

(* ------------------------------------------------------------ upload.py *)
\* What one POST to ImgBB can come to
Outcomes == {"ok", "network_error", "http_error", "bad_json", "api_error"}

\* key: IMG_API_KEY is set; a, b: the outcome of each strategy's attempt;
\* json_is_request_exc: whether the installed requests raises a JSONDecodeError
\* that derives from RequestException
UploadEnvs == [key : BOOLEAN, a : Outcomes, b : Outcomes, json_is_request_exc : BOOLEAN]

NoUpload == [called |-> FALSE, raised |-> FALSE, value |-> NoneStr,
             attempts |-> << >>, a_exc |-> "none"]

UrlOf(strategy) == "https://i.ibb.co/" \o strategy

\* the class of the exception an attempt raises
ExcClass(outcome, json_is_request_exc) ==
  CASE outcome = "ok" -> "none"
    [] outcome = "network_error" -> "RequestException"
    [] outcome = "bad_json" ->
         IF json_is_request_exc THEN "RequestException" ELSE "Exception"
    [] OTHER -> "Exception"

ExcText(outcome) ==
  CASE outcome = "network_error" -> "ConnectionError"
    [] outcome = "http_error" -> "HTTP Error 500"
    [] outcome = "bad_json" -> "Expecting value"
    [] outcome = "api_error" -> "ImgBB API Error"
    [] OTHER -> ""

upload_image_multipart_fallback(env, tried) ==
  IF env.b = "ok"
  THEN [called |-> TRUE, raised |-> FALSE, value |-> UrlOf("b"),
        attempts |-> Append(tried, "b"), a_exc |-> ExcClass(env.a, env.json_is_request_exc)]
  ELSE [called |-> TRUE, raised |-> TRUE,
        value |-> "Both upload methods failed: " \o ExcText(env.b),
        attempts |-> Append(tried, "b"), a_exc |-> ExcClass(env.a, env.json_is_request_exc)]

\* faulty variant: no separate handler for RequestException
HandledByFallbackAlways(exc) == "multipart_fallback"

\* Which handler of upload_image's try takes an exception of class exc
HandledBy(exc) ==
  IF exc = "RequestException" THEN "raise_network_error" ELSE "multipart_fallback"

upload_image(image_path, fs, env) ==
  IF image_path \notin fs
  THEN [NoUpload EXCEPT !.called = TRUE, !.raised = TRUE, !.value = "Image file not found"]
  ELSE IF ~env.key
  THEN [NoUpload EXCEPT !.called = TRUE, !.raised = TRUE,
                        !.value = "IMG_API_KEY not found in .env file"]
  ELSE LET exc == ExcClass(env.a, env.json_is_request_exc)
       IN IF exc = "none"
          THEN [called |-> TRUE, raised |-> FALSE, value |-> UrlOf("a"),
                attempts |-> <<"a">>, a_exc |-> "none"]
          ELSE IF HandledBy(exc) = "raise_network_error"
          THEN [called |-> TRUE, raised |-> TRUE,
                value |-> "Network error: " \o ExcText(env.a),
                attempts |-> <<"a">>, a_exc |-> exc]
          ELSE upload_image_multipart_fallback(env, <<"a">>)


(* ------------------------------------------------------- api.py: state *)
Reqs == 1..NumReqs

\* uuid.uuid4(): a fresh token per accepted request
Uuid(n) == "T" \o ToString(n)
Tokens == {Uuid(n) : n \in 1..MaxTokens}

\* payload sizes around the ceiling
Sizes == {MAX_FILE_SIZE, MAX_FILE_SIZE + 1}

\* upload file names: a.PNG, a.gif, a, .png, a.png.txt
Filenames ==
  { <<"a", ".", "P", "N", "G">>,
    <<"a", ".", "g", "i", "f">>, <<"a">>, <<".", "p", "n", "g">>,
    <<"a", ".", "p", "n", "g", ".", "t", "x", "t">> }

NoResponse ==
  [success |-> FALSE, file_id |-> NoneStr, keys |-> {}, imgbb_url |-> NoneStr,
   external_url_available |-> FALSE, upload_error |-> NoneStr,
   raw_data_available |-> FALSE, imgbb_upload |-> NoneStr]

\* the locals of one predict() call; status is the HTTP status once decided
IdleReq ==
  [pc |-> "idle", size |-> 0, filename |-> << >>, file_ext |-> << >>,
   file_id |-> NoneStr, input_path |-> NoPath, output_path |-> NoPath,
   calc |-> NoCalc, depth_result |-> NoneStr, up |-> NoUpload,
   imgbb_url |-> NoneStr, upload_error_msg |-> NoneStr,
   status |-> 0, response |-> NoResponse, could_not_delete |-> FALSE]

\* the cleanup_files() call that has just returned, if nothing ran since:
\* what it was given, what it found, removed and counted
NoOp == [op |-> "none", file_id |-> NoneStr, found |-> {}, removed |-> {},
         files_deleted |-> 0]

NotBuilt == [raised |-> FALSE, alt |-> FALSE, moved |-> FALSE, self |-> NoModel]

\* the command line process: off while the server is what runs
NoCli == [pc |-> "off", env |-> [hub1 |-> TRUE, fix |-> TRUE, eval1 |-> TRUE,
                                   hub2 |-> TRUE, eval2 |-> TRUE, cuda |-> FALSE,
                                   to |-> TRUE],
          built |-> NotBuilt, image_path |-> NoPath, output_path |-> NoPath,
          calc |-> NoCalc, result |-> NoneStr, printed |-> FALSE]

\* api.py lines 14-19: the module-level construction; a raise leaves None.
\* The handlers never read the device the model sits on.
ModuleLevelEstimator(env) ==
  LET built == DepthEstimationModel(env)
  IN IF built.raised THEN NoModel ELSE [built.self EXCEPT !.device = "any"]

InputPath(file_id, file_ext) == PathJoin(TEMP_FOLDER, <<"input_", file_id>> \o file_ext)
OutputPath(file_id) == PathJoin(OUTPUT_FOLDER, <<"output_", file_id, ".png">>)
NpyPath(file_id) == PathJoin(OUTPUT_FOLDER, <<"output_", file_id, "_raw.npy">>)

\* cleanup_file: remove when present; a failing os.remove is printed, not raised
cleanup_file(fs, file_path, rm_ok) ==
  IF file_path \in fs
  THEN IF rm_ok THEN [fs |-> fs \ {file_path}, printed |-> FALSE]
                ELSE [fs |-> fs, printed |-> TRUE]
  ELSE [fs |-> fs, printed |-> FALSE]

\* faulty variant: calculate_depthmap is awaited (run off the loop)
YieldsInCalc(pc) == pc \in {"read", "calc"}

\* The event loop runs one coroutine at a time; a coroutine gives it up only
\* at an await.  predict() has one: await file.read().
YieldsAt(pc) == pc = "read"

LoopAfter(r, pc) == IF YieldsAt(pc) \/ pc = "idle" THEN 0 ELSE r

\* a coroutine may take a step when it holds the loop, or the loop is free
\* and it is at its beginning or at an await
MayRun(r) ==
  \/ loop = r
  \/ loop = 0 /\ (req[r].pc = "idle" \/ YieldsAt(req[r].pc))

Step(r, new) ==
  /\ req' = [req EXCEPT ![r] = new]
  /\ loop' = LoopAfter(r, new.pc)
  /\ last' = NoOp

(* ----------------------------------------------------- api.py: predict *)
\* lines 53-64: the model gate, then await file.read()
Receive(r) ==
  /\ req[r].pc = "idle"
  /\ MayRun(r)
  /\ IF depth_estimator = NoModel
     THEN \E size \in Sizes, filename \in Filenames :
            Step(r, [IdleReq EXCEPT !.pc = "exit", !.status = 503,
                                    !.size = size, !.filename = filename])
     ELSE Step(r, [IdleReq EXCEPT !.pc = "read"])
  /\ UNCHANGED <<depth_estimator, files, nextToken, cli>>

\* faulty variant: the extension gate comes before the size gate
GateStatusExtFirst(size, file_ext) ==
  IF file_ext \notin ALLOWED_EXTENSIONS THEN 400
  ELSE IF size > MAX_FILE_SIZE THEN 413
  ELSE 0

\* the status of the first gate of lines 65-77 the payload violates, 0 if none
GateStatus(size, file_ext) ==
  IF size > MAX_FILE_SIZE THEN 413
  ELSE IF file_ext \notin ALLOWED_EXTENSIONS THEN 400
  ELSE 0

\* lines 64-85: the payload is read; size gate, extension gate, token, paths
Validate(r) ==
  /\ req[r].pc = "read"
  /\ MayRun(r)
  /\ \E size \in Sizes, filename \in Filenames :
       LET file_ext == lower(splitext(filename)[2])
           gate == GateStatus(size, file_ext)
           file_id == Uuid(nextToken)
           got == [req[r] EXCEPT !.size = size, !.filename = filename]
       IN IF gate # 0
          THEN /\ Step(r, [got EXCEPT !.pc = "finally", !.status = gate])
               /\ UNCHANGED nextToken
          ELSE /\ nextToken <= MaxTokens
               /\ Step(r, [got EXCEPT !.pc = "store", !.file_ext = file_ext,
                                      !.file_id = file_id,
                                      !.input_path = InputPath(file_id, file_ext),
                                      !.output_path = OutputPath(file_id)])
               /\ nextToken' = nextToken + 1
  /\ UNCHANGED <<depth_estimator, files, cli>>

\* lines 88-89: open(input_path, "wb") and write; then line 93 is entered
Store(r) ==
  /\ req[r].pc = "store"
  /\ MayRun(r)
  /\ \E outcome \in {"ok", "open_fails", "write_fails"} :
       /\ files' = IF outcome = "open_fails" THEN files
                   ELSE files \cup {req[r].input_path}
       /\ IF outcome = "ok"
          THEN Step(r, [req[r] EXCEPT !.pc = "calc", !.calc = [NoCalc EXCEPT !.cpc = "infer"]])
          ELSE Step(r, [req[r] EXCEPT !.pc = "finally", !.status = 500])
  /\ UNCHANGED <<depth_estimator, nextToken, cli>>

\* line 93: depth_estimator.calculate_depthmap(input_path, output_path)
Calc(r) ==
  /\ req[r].pc = "calc"
  /\ MayRun(r)
  /\ \E ok \in BOOLEAN :
       LET n == calculate_depthmap(req[r].calc, files, depth_estimator,
                                   req[r].input_path, req[r].output_path, ok)
       IN /\ files' = n.fs
          /\ IF n.c.cpc = "returned"
             THEN Step(r, [req[r] EXCEPT !.pc = "check", !.calc = n.c,
                                         !.depth_result = n.c.result])
             ELSE Step(r, [req[r] EXCEPT !.calc = n.c])
  /\ UNCHANGED <<depth_estimator, nextToken, cli>>

\* faulty variant: only the return value is looked at
GenerationFailedResultOnly(depth_result, output_path, fs) == depth_result = NoneStr

\* line 96: the condition under which predict raises its 500
GenerationFailed(depth_result, output_path, fs) ==
  depth_result = NoneStr \/ output_path \notin fs

\* lines 96-102
Check(r) ==
  /\ req[r].pc = "check"
  /\ MayRun(r)
  /\ IF GenerationFailed(req[r].depth_result, req[r].output_path, files)
     THEN Step(r, [req[r] EXCEPT !.pc = "finally", !.status = 500])
     ELSE Step(r, [req[r] EXCEPT !.pc = "upload"])
  /\ UNCHANGED <<depth_estimator, files, nextToken, cli>>

\* faulty variant: no try around upload_image, its exception reaches the outer handler
AfterUploadPropagates(q, up) ==
  IF up.raised
  THEN [q EXCEPT !.pc = "finally", !.up = up, !.status = 500]
  ELSE [q EXCEPT !.pc = "respond", !.up = up, !.imgbb_url = up.value]

\* lines 108-115: what the try around upload_image leaves in the locals
AfterUpload(q, up) ==
  [q EXCEPT !.pc = "respond", !.up = up,
            !.imgbb_url = IF up.raised THEN NoneStr ELSE up.value,
            !.upload_error_msg = IF up.raised THEN up.value ELSE NoneStr]

Upload(r) ==
  /\ req[r].pc = "upload"
  /\ MayRun(r)
  /\ \E env \in UploadEnvs :
       Step(r, AfterUpload(req[r], upload_image(req[r].output_path, files, env)))
  /\ UNCHANGED <<depth_estimator, files, nextToken, cli>>

\* lines 118-151: response_data
ResponseData(q, fs) ==
  LET url == Truthy(q.imgbb_url)
      err == ~url /\ Truthy(q.upload_error_msg)
      raw == NpyPath(q.file_id) \in fs
  IN [success |-> TRUE, file_id |-> q.file_id,
      keys |-> {"success", "file_id", "external_url_available", "raw_data_available"}
               \cup (IF url THEN {"imgbb_url"} ELSE {})
               \cup (IF err THEN {"upload_error"} ELSE {})
               \cup (IF raw THEN {"raw_data_url"} ELSE {}),
      imgbb_url |-> IF url THEN q.imgbb_url ELSE NoneStr,
      external_url_available |-> url,
      upload_error |-> IF err THEN q.upload_error_msg ELSE NoneStr,
      raw_data_available |-> raw,
      imgbb_upload |-> IF url THEN "completed" ELSE "failed"]

Respond(r) ==
  /\ req[r].pc = "respond"
  /\ MayRun(r)
  /\ Step(r, [req[r] EXCEPT !.pc = "finally", !.status = 200,
                            !.response = ResponseData(req[r], files)])
  /\ UNCHANGED <<depth_estimator, files, nextToken, cli>>

\* faulty variant: the scratch file is removed on the success path only
FinallyOnSuccessOnly(q, fs, rm_ok) ==
  IF q.input_path # NoPath /\ q.status = 200
  THEN cleanup_file(fs, q.input_path, rm_ok)
  ELSE [fs |-> fs, printed |-> FALSE]

\* lines 163-166: what the finally clause does to the file system
FinallyClause(q, fs, rm_ok) ==
  IF q.input_path # NoPath
  THEN cleanup_file(fs, q.input_path, rm_ok)
  ELSE [fs |-> fs, printed |-> FALSE]

Finally(r) ==
  /\ req[r].pc = "finally"
  /\ MayRun(r)
  /\ \E rm_ok \in BOOLEAN :
       LET c == FinallyClause(req[r], files, rm_ok)
       IN /\ files' = c.fs
          /\ Step(r, [req[r] EXCEPT !.pc = "exit", !.could_not_delete = c.printed])
  /\ UNCHANGED <<depth_estimator, nextToken, cli>>

\* the response or the HTTPException leaves the handler; its locals are gone
Return(r) ==
  /\ req[r].pc = "exit"
  /\ MayRun(r)
  /\ Step(r, IdleReq)
  /\ UNCHANGED <<depth_estimator, files, nextToken, cli>>

(* ------------------------------------------------ api.py: cleanup_files *)
\* lines 207-219: the two exists/cleanup_file/count blocks
CleanupCount(fs, png_path, npy_path, rm_png, rm_npy) ==
  LET found1 == png_path \in fs
      c1 == IF found1 THEN cleanup_file(fs, png_path, rm_png).fs ELSE fs
      found2 == npy_path \in c1
      c2 == IF found2 THEN cleanup_file(c1, npy_path, rm_npy).fs ELSE c1
  IN [fs |-> c2,
      files_deleted |-> (IF found1 THEN 1 ELSE 0) + (IF found2 THEN 1 ELSE 0)]

\* cleanup_files has no await: it runs from start to end once the loop is free
cleanup_files ==
  /\ loop = 0
  /\ \E file_id \in Tokens, rm_png \in BOOLEAN, rm_npy \in BOOLEAN :
       LET png_path == OutputPath(file_id)
           npy_path == NpyPath(file_id)
           c == CleanupCount(files, png_path, npy_path, rm_png, rm_npy)
       IN /\ files' = c.fs
          /\ last' = [NoOp EXCEPT !.op = "cleanup", !.file_id = file_id,
                        !.found = {png_path, npy_path} \cap files,
                        !.removed = files \ c.fs,
                        !.files_deleted = c.files_deleted]
  /\ UNCHANGED <<depth_estimator, req, loop, nextToken, cli>>

(* -------------------------------------------------------- specification *)
Init ==
  /\ depth_estimator \in {ModuleLevelEstimator(env) : env \in LoaderEnvs}
  /\ files = {}
  /\ req = [r \in Reqs |-> IdleReq]
  /\ loop = 0
  /\ nextToken = 1
  /\ last = NoOp
  /\ cli = NoCli

Next ==
  \/ \E r \in Reqs : Receive(r)
  \/ \E r \in Reqs : Validate(r)
  \/ \E r \in Reqs : Store(r)
  \/ \E r \in Reqs : Calc(r)
  \/ \E r \in Reqs : Check(r)
  \/ \E r \in Reqs : Upload(r)
  \/ \E r \in Reqs : Respond(r)
  \/ \E r \in Reqs : Finally(r)
  \/ \E r \in Reqs : Return(r)
  \/ cleanup_files

Spec == Init /\ [][Next]_vars


(* --------------------------------------------------------------- cli.py *)
CliImage == <<"in", ".jpg">>

\* output_path arguments: out.png, out.jpg, out.xyz, nodir/out.png
CliOutputPaths ==
  { <<"out", ".png">>, <<"out", ".jpg">>, <<"out", ".xyz">>,
    <<"nodir", "/", "out", ".png">> }

\* line 15: model = DepthEstimationModel(); a raise ends the process
CliConstruct ==
  /\ cli.pc = "start"
  /\ LET built == DepthEstimationModel(cli.env)
     IN cli' = [cli EXCEPT !.built = built,
                           !.pc = IF built.raised THEN "crashed" ELSE "calc",
                           !.calc = IF built.raised THEN NoCalc
                                    ELSE [NoCalc EXCEPT !.cpc = "infer"]]
  /\ UNCHANGED <<depth_estimator, files, req, loop, nextToken, last>>

\* line 16: result = model.calculate_depthmap(args.image_path, args.output_path)
CliCalc ==
  /\ cli.pc = "calc"
  /\ \E ok \in BOOLEAN :
       LET n == calculate_depthmap(cli.calc, files, cli.built.self,
                                   cli.image_path, cli.output_path, ok)
       IN /\ files' = n.fs
          /\ cli' = IF n.c.cpc = "returned"
                    THEN [cli EXCEPT !.pc = "print", !.calc = n.c, !.result = n.c.result]
                    ELSE [cli EXCEPT !.calc = n.c]
  /\ UNCHANGED <<depth_estimator, req, loop, nextToken, last>>

\* line 17: print(result)
CliPrint ==
  /\ cli.pc = "print"
  /\ cli' = [cli EXCEPT !.pc = "exit", !.printed = TRUE]
  /\ UNCHANGED <<depth_estimator, files, req, loop, nextToken, last>>

InitCli ==
  /\ depth_estimator = NoModel
  /\ files \in {{}, {CliImage}}
  /\ req = [r \in Reqs |-> IdleReq]
  /\ loop = 0
  /\ nextToken = 1
  /\ last = NoOp
  /\ \E env \in LoaderEnvs, output_path \in CliOutputPaths :
       cli = [NoCli EXCEPT !.pc = "start", !.env = env,
                           !.image_path = CliImage, !.output_path = output_path]

NextCli == CliConstruct \/ CliCalc \/ CliPrint

SpecCli == InitCli /\ [][NextCli]_vars


(* ================================================================ claims *)
Left(q) == q.pc \in {"finally", "exit"}

\* C1 as stated: once a predict() call that stored uploads/input_<token><ext>
\* has run its finally clause, that file is absent, whatever the outcome and
\* even when the removal itself failed.
C1_ScratchAlwaysAbsent ==
  \A r \in Reqs :
    (req[r].pc = "exit" /\ req[r].input_path # NoPath) => req[r].input_path \notin files

\* C1 amended: once the finally clause has run, the scratch file survives only
\* when os.remove failed on it, which cleanup_file printed and swallowed; on
\* every outcome with a working removal it is absent.
C1_ScratchAbsentUnlessRemoveFailed ==
  \A r \in Reqs :
    (req[r].pc = "exit" /\ req[r].input_path # NoPath)
      => (req[r].input_path \in files <=> req[r].could_not_delete)

\* a stored request that failed with 500 and whose scratch file is gone
C1_Witness ==
  \E r \in Reqs :
    /\ req[r].pc = "exit" /\ req[r].status = 500
    /\ req[r].calc.cpc = "returned"
    /\ req[r].input_path \notin files

\* the names whose extension is not on the allow-list
BadExtNames ==
  { <<"a", ".", "g", "i", "f">>, <<"a">>, <<".", "p", "n", "g">>,
    <<"a", ".", "p", "n", "g", ".", "t", "x", "t">> }

ExpectedGate(size, filename) ==
  IF depth_estimator = NoModel THEN 503
  ELSE IF size > 10485760 THEN 413
  ELSE IF filename \in BadExtNames THEN 400
  ELSE 0

C2_FirstGateWins ==
  \A r \in Reqs :
    req[r].filename # << >> =>
      LET e == ExpectedGate(req[r].size, req[r].filename)
      IN /\ e # 0 => /\ req[r].status = e
                     /\ Left(req[r])
                     /\ req[r].input_path = NoPath
                     /\ req[r].file_id = NoneStr
         /\ e = 0 => req[r].status \notin {503, 413, 400}

C2_RejectionWritesNothing ==
  \A r \in Reqs : req'[r].status \in {503, 413, 400} => files' = files

\* C2: predict() answers with the code of the first gate the request violates
\* in the order 503 (no model), 413 (over 10 MB), 400 (extension not allowed),
\* and a rejected request has no token, no path and writes no file.
C2_GatesInOrderNoWrite == []C2_FirstGateWins /\ [][C2_RejectionWritesNothing]_vars

\* an oversized payload with a bad extension is answered 413
C2_Witness ==
  \E r \in Reqs :
    /\ req[r].pc = "finally" /\ req[r].status = 413
    /\ req[r].filename \in BadExtNames

\* C3: a response with success = true and file_id = T is built only while
\* outputs/output_T.png and outputs/output_T_raw.npy both exist, so it carries
\* raw_data_available = true, and T is the request's one token.
C3_SuccessHasBothFiles ==
  \A r \in Reqs :
    (Left(req[r]) /\ req[r].response.success) =>
      LET T == req[r].response.file_id
      IN /\ T \in Tokens /\ T = req[r].file_id
         /\ <<OUTPUT_FOLDER, "/", "output_", T, ".png">> \in files
         /\ <<OUTPUT_FOLDER, "/", "output_", T, "_raw.npy">> \in files
         /\ req[r].response.raw_data_available
         /\ "raw_data_url" \in req[r].response.keys

C3_Witness ==
  \E r \in Reqs :
    /\ req[r].pc = "finally" /\ req[r].response.success
    /\ NpyPath(req[r].file_id) \in files

\* C4: when upload_image raises, the response still has success = true, with
\* external_url_available = false, no imgbb_url, and the exception's message
\* under upload_error; the request is not turned into an error.
C4_UploadFailureOnlyAnnotates ==
  \A r \in Reqs :
    (Left(req[r]) /\ req[r].up.called /\ req[r].up.raised) =>
      /\ req[r].status = 200
      /\ req[r].response.success
      /\ ~req[r].response.external_url_available
      /\ "imgbb_url" \notin req[r].response.keys
      /\ req[r].response.imgbb_url = NoneStr
      /\ "upload_error" \in req[r].response.keys
      /\ req[r].response.upload_error = req[r].up.value

\* both strategies were tried and failed; the response is a success
C4_Witness ==
  \E r \in Reqs :
    /\ req[r].pc = "finally" /\ req[r].up.raised
    /\ req[r].up.attempts = <<"a", "b">>
    /\ req[r].response.success

\* C5 as stated: whatever exception strategy (a) raises, (b) is attempted, and
\* upload_image never fails without having attempted (b).
C5_AlwaysFallsBack ==
  \A r \in Reqs :
    req[r].up.called =>
      /\ req[r].up.a_exc # "none" => req[r].up.attempts = <<"a", "b">>
      /\ req[r].up.raised => req[r].up.attempts = <<"a", "b">>

\* C5 amended: (a) is attempted first once the file exists and the key is
\* resolved.  An exception of (a) that is not a requests RequestException
\* leads to (b); a RequestException makes upload_image fail at once with
\* "Network error: ..." and (b) untried.  upload_image fails without (b)
\* only for that, a missing key or a missing file.
C5_FallsBackExceptOnRequestException ==
  \A r \in Reqs :
    req[r].up.called =>
      /\ req[r].up.attempts \in {<< >>, <<"a">>, <<"a", "b">>}
      /\ req[r].up.a_exc = "Exception" => req[r].up.attempts = <<"a", "b">>
      /\ req[r].up.a_exc = "RequestException" =>
           /\ req[r].up.attempts = <<"a">>
           /\ req[r].up.raised
           /\ req[r].up.value \in {"Network error: ConnectionError",
                                   "Network error: Expecting value"}
      /\ (req[r].up.raised /\ req[r].up.attempts # <<"a", "b">>) =>
           \/ req[r].up.a_exc = "RequestException"
           \/ /\ req[r].up.attempts = << >>
              /\ req[r].up.value \in {"IMG_API_KEY not found in .env file",
                                      "Image file not found"}

\* (a) raised a plain exception, (b) was tried and failed too
C5_Witness ==
  \E r \in Reqs :
    /\ req[r].up.called /\ req[r].up.a_exc = "Exception"
    /\ req[r].up.attempts = <<"a", "b">> /\ req[r].up.raised

\* C6 as stated: cleanup_files reports the number of files it removed (2, 1
\* or 0 for both, one or none present), and when it returns neither output
\* file of the id exists, so a repeated call reports 0.
C6_CountIsRemovedAndNothingLeft ==
  last.op = "cleanup" =>
    /\ last.files_deleted = Cardinality(last.removed)
    /\ last.files_deleted = Cardinality(last.found)
    /\ OutputPath(last.file_id) \notin files
    /\ NpyPath(last.file_id) \notin files

LoaderDone == cli.pc \notin {"off", "start"}

\* a step of the primary path failed: the fetch, the state_dict rewrite, the
\* switch to inference mode, or the move to the device
PrimaryStepFailed(env) ==
  \/ ~env.hub1
  \/ env.hub1 /\ ~env.fix
  \/ env.hub1 /\ ~env.eval1
  \/ env.hub1 /\ env.eval1 /\ ~env.to

\* C7 as stated: a failure in any of the primary steps 1-3 invokes the MiDaS
\* path and its result is the model; construction fails only when the
\* secondary load fails too.
C7_AnyPrimaryFailureFallsBack ==
  LoaderDone =>
    /\ PrimaryStepFailed(cli.env) => cli.built.alt
    /\ (PrimaryStepFailed(cli.env) /\ ~cli.built.raised) => cli.built.self.model = "MiDaS"
    /\ cli.built.raised => (cli.built.alt /\ ~(cli.env.hub2 /\ cli.env.eval2))

\* C7 amended: the MiDaS path is invoked exactly when the hub fetch of the
\* primary network or its switch to inference mode fails, and its result is
\* then the model.  A failing state_dict rewrite is printed and the primary
\* network is kept.  The move to the device comes after either path, outside
\* the fallback: its failure fails construction, as does a failing MiDaS load.
C7_FallbackOnFetchOrEvalOnly ==
  LoaderDone =>
    /\ cli.built.alt <=> (~cli.env.hub1 \/ ~cli.env.eval1)
    /\ ~cli.built.raised =>
         cli.built.self.model = (IF cli.built.alt THEN "MiDaS" ELSE "ZoeD_N")
    /\ cli.built.raised <=>
         \/ cli.built.alt /\ ~(cli.env.hub2 /\ cli.env.eval2)
         \/ ~cli.env.to

\* the primary fetch failed and MiDaS is the model
C7_Witness ==
  /\ LoaderDone /\ ~cli.env.hub1
  /\ cli.built.alt /\ ~cli.built.raised /\ cli.built.self.model = "MiDaS"

\* C8 as stated: when calculate_depthmap has not written the colorized image
\* at output_path, it returns None.
C8_NoImageMeansNone ==
  (cli.pc \in {"print", "exit"} /\ cli.output_path \notin files) => cli.result = NoneStr

(* the position of a request in the lifecycle of the orchestrator *)
Phase(q, fs) ==
  CASE q.pc = "idle" -> "NONE"
    [] q.pc = "read" -> "RECEIVED"
    [] q.pc = "store" -> "VALIDATED"
    [] q.pc = "calc" /\ q.calc.cpc = "infer" -> "STORED"
    [] q.pc = "calc" /\ q.calc.cpc # "infer" -> "INFERRED"
    [] q.pc = "check" ->
         IF q.depth_result # NoneStr /\ q.output_path \in fs /\ NpyPath(q.file_id) \in fs
         THEN "PERSISTED" ELSE "INFERRED"
    [] q.pc = "upload" -> "PERSISTED"
    [] q.pc = "respond" -> IF q.up.raised THEN "UPLOAD_SKIPPED" ELSE "UPLOADED"
    [] q.pc = "finally" -> IF q.status = 200 THEN "RESPONDED" ELSE "FAILED"
    [] q.pc = "exit" -> IF q.status = 200 THEN "CLEANED_UP" ELSE "FAILED"
    [] OTHER -> "?"

PhaseMove(p, q) ==
  \/ p = q
  \/ <<p, q>> \in { <<"NONE", "RECEIVED">>, <<"RECEIVED", "VALIDATED">>,
                    <<"VALIDATED", "STORED">>, <<"STORED", "INFERRED">>,
                    <<"INFERRED", "PERSISTED">>, <<"PERSISTED", "UPLOADED">>,
                    <<"PERSISTED", "UPLOAD_SKIPPED">>, <<"UPLOADED", "RESPONDED">>,
                    <<"UPLOAD_SKIPPED", "RESPONDED">>, <<"RESPONDED", "CLEANED_UP">>,
                    <<"CLEANED_UP", "NONE">>, <<"FAILED", "NONE">> }
  \/ q = "FAILED" /\ p \in {"NONE", "RECEIVED", "VALIDATED", "STORED", "INFERRED"}

C9_InOrder ==
  \A r \in Reqs :
    /\ PhaseMove(Phase(req[r], files), Phase(req'[r], files'))
    /\ (Phase(req[r], files) = "NONE" /\ Phase(req'[r], files') = "FAILED")
         => req'[r].status = 503

C9_UploadOnlyAfterPersist ==
  \A r \in Reqs :
    /\ req[r].up.called =>
         /\ req[r].depth_result # NoneStr
         /\ OutputPath(req[r].file_id) \in files
         /\ NpyPath(req[r].file_id) \in files
    /\ req[r].status \notin {0, 200} => ~req[r].up.called

\* C9: each predict() call moves through RECEIVED, VALIDATED, STORED, INFERRED,
\* PERSISTED, UPLOADED or UPLOAD_SKIPPED, RESPONDED, CLEANED_UP in this order,
\* leaving it only for FAILED and only before PERSISTED; upload_image is called
\* only once both output files are written, and never by a call that fails.
C9_LifecycleInOrder == []C9_UploadOnlyAfterPersist /\ [][C9_InOrder]_vars

C9_Witness ==
  \E r \in Reqs : Phase(req[r], files) = "CLEANED_UP" /\ req[r].up.called

\* between the write of the input file and the end of the finally clause
Critical(q) == q.pc \in {"calc", "check", "upload", "respond"}
               \/ (q.pc = "finally" /\ q.input_path # NoPath)

C10_OneAtATime == Cardinality({r \in Reqs : Critical(req[r])}) <= 1

C10_NoCleanupInside ==
  (last'.op = "cleanup" /\ (last' # last \/ files' # files))
    => \A r \in Reqs : ~Critical(req[r])

\* C10: in one process no two predict() calls are at once between storing
\* their input file and deleting it, and no cleanup_files() runs while a
\* predict() call is there: the handlers are coroutines with no await in
\* that stretch.
C10_Serialized == []C10_OneAtATime /\ [][C10_NoCleanupInside]_vars

\* one call is inside calculate_depthmap while another waits at its await
C10_Witness ==
  \E r1 \in Reqs, r2 \in Reqs :
    /\ r1 # r2
    /\ req[r1].pc = "calc" /\ req[r1].calc.cpc = "np_save"
    /\ req[r2].pc = "read"

====
